---- MODULE Spec2Model ----
(***************************************************************************)
(* AIJobInsight: the insight client (generateInsights, getJobInsights),    *)
(* the response normalisation inside generateInsights and the request      *)
(* lifecycle of the App component (handleSubmit and the controls it        *)
(* disables).                                                              *)
(*                                                                         *)
(* The specifications share the variables:                                 *)
(*   Spec      the App component driving one of the two insight clients    *)
(*   FairSpec  Spec in which every pending service call settles            *)
(*   ChartSpec Spec together with the teardown of the component            *)
(*   RaceSpec  handleSubmit invoked also while a request is in flight      *)
(*   NormSpec  generateInsights applied to one service response            *)
(*   DistSpec  the skill-distribution rescaling applied to one raw pair    *)
(*   SplitSpec the bullet split of one category text                       *)
(***************************************************************************)
EXTENDS Integers, Sequences, FiniteSets, TLC

VARIABLES
    backend,        \* which insight client the build of App imports
    jobTitle,       \* useState(JOB_TITLES[0])
    jobLevel,       \* useState(JOB_LEVELS[0])
    isLoading,      \* useState(false)
    error,          \* useState<string | null>(null)
    insights,       \* useState<InsightData | null>(null): <<>> is null, <<d>> is d
    inflight,       \* handleSubmit invocations suspended at their await
    calls,          \* requests issued to the external service so far
    submits,        \* handleSubmit invocations so far
    lastSettled,    \* <<>> or <<[req, response, outcome]>>: the last settlement since the last submit
    mounted,        \* the App component is mounted
    chartRef,       \* chartRef.current: <<>> is null, <<c>> is the Chart instance c
    charts,         \* the Chart instances created and not destroyed
    chartsCreated,  \* new Chart(...) calls so far
    resp,           \* NormSpec: the service response handed to generateInsights
    out,            \* NormSpec: <<>> or <<outcome of generateInsights(resp)>>
    renorm,         \* NormSpec: <<>> or <<outcome of normalising out's data again>>
    dist,           \* DistSpec: the raw <<technical, soft>> pair
    distOut,        \* DistSpec: <<>> or <<the normalised skillDistribution>>
    text,           \* SplitSpec: insight.text as a sequence of characters
    points          \* SplitSpec: <<>> or <<the bullets rendered for text>>

chartVars == <<mounted, chartRef, charts, chartsCreated>>
uiVars    == <<backend, jobTitle, jobLevel, isLoading, error, insights,
               inflight, calls, submits, lastSettled, chartVars>>
normVars  == <<resp, out, renorm>>
distVars  == <<dist, distOut>>
splitVars == <<text, points>>
vars      == <<uiVars, normVars, distVars, splitVars>>

----------------------------------------------------------------------------
(* Bounds *)

MaxEntries == 5     \* longest raw keyInsights array
MaxRaw     == 72    \* largest raw technical / soft value in DistSpec
MaxNeg     == 3     \* raw technical / soft values in DistSpec go down to -MaxNeg
MaxSubmits == 3     \* handleSubmit invocations per behaviour
MaxChoice  == 2     \* catalog entries the selection controls range over
MaxTextLen == 5     \* longest category text SplitSpec enumerates

----------------------------------------------------------------------------
(* IEEE-754 binary64 arithmetic, as far as line 112 of generateInsights    *)
(* needs it: Math.round((technical / total) * 100).  A double is a sign, a *)
(* 53-bit significand and an exponent: value = significand * 2^exp.  The   *)
(* significand is held as five limbs, most significant first: the leading  *)
(* bit and four limbs of 13 bits; <<>> is zero.  The operands are integers *)
(* below 2^17 in magnitude, so no intermediate value leaves 32 bits.       *)

MantBits  == 53
LimbBits  == 13

RECURSIVE Pow2(_)
Pow2(n) == IF n = 0 THEN 1 ELSE 2 * Pow2(n - 1)

LimbBase  == Pow2(LimbBits)
MantLimbs == 1 + (MantBits - 1) \div LimbBits

\* the k with b * 2^k <= a < b * 2^(k+1), for a, b > 0
RECURSIVE Log2Floor(_, _)
Log2Floor(a, b) ==
    IF a >= 2 * b THEN 1 + Log2Floor(a, 2 * b)
    ELSE IF a < b THEN Log2Floor(2 * a, b) - 1
    ELSE 0

\* one limb of long division: the next 13 quotient bits of rem / b
DivStep(rem, b) ==
    [q |-> (rem * LimbBase) \div b, rem |-> (rem * LimbBase) % b]

\* the significand plus one unit in the last place; limb i and the limbs
\* below it are at their maximum
RECURSIVE IncLimbs(_, _)
IncLimbs(m, i) ==
    IF i = 1 THEN [m EXCEPT ![1] = m[1] + 1]
    ELSE IF m[i] < LimbBase - 1 THEN [m EXCEPT ![i] = m[i] + 1]
         ELSE IncLimbs([m EXCEPT ![i] = 0], i - 1)

\* round a 53-bit significand up or down; 2^53 renormalises to 2^52
RoundToMant(m, exp, roundUp) ==
    LET up == IF roundUp THEN IncLimbs(m, MantLimbs) ELSE m
    IN  IF up[1] > 1
        THEN [mant |-> [up EXCEPT ![1] = 1], exp |-> exp + 1]
        ELSE [mant |-> up, exp |-> exp]

FZero(neg) == [neg |-> neg, mant |-> <<>>, exp |-> 0]

\* a / b on two integers held as doubles, b # 0: round to nearest, ties to even
FDiv(a, b) ==
    LET na  == IF a < 0 THEN -a ELSE a
        nb  == IF b < 0 THEN -b ELSE b
        neg == (a < 0) # (b < 0)
    IN  IF na = 0 THEN FZero(neg)
        ELSE LET k  == Log2Floor(na, nb)
                 A  == IF k >= 0 THEN na ELSE na * Pow2(-k)
                 B  == IF k >= 0 THEN nb * Pow2(k) ELSE nb
                 s1 == DivStep(A - B, B)
                 s2 == DivStep(s1.rem, B)
                 s3 == DivStep(s2.rem, B)
                 s4 == DivStep(s3.rem, B)
                 roundUp == \/ 2 * s4.rem > B
                            \/ 2 * s4.rem = B /\ s4.q % 2 = 1
                 r  == RoundToMant(<<1, s1.q, s2.q, s3.q, s4.q>>,
                                   k - (MantBits - 1), roundUp)
             IN  [neg |-> neg, mant |-> r.mant, exp |-> r.exp]

\* x * c for a double x and an integer 0 < |c| < 2^13: the exact product of
\* the significand and c, rounded to nearest, ties to even
FMul(x, c) ==
    LET nc  == IF c < 0 THEN -c ELSE c
        neg == x.neg # (c < 0)
    IN  IF x.mant = <<>> \/ nc = 0 THEN FZero(neg)
        ELSE LET m  == x.mant
                 v5 == m[5] * nc
                 v4 == m[4] * nc + v5 \div LimbBase
                 v3 == m[3] * nc + v4 \div LimbBase
                 v2 == m[2] * nc + v3 \div LimbBase
                 v1 == m[1] * nc + v2 \div LimbBase
                 l5 == v5 % LimbBase
                 l4 == v4 % LimbBase
                 l3 == v3 % LimbBase
                 l2 == v2 % LimbBase
                 sh == Log2Floor(v1, 1)
                 P  == Pow2(sh)
                 Q  == Pow2(LimbBits - sh)
                 n1 == v1 \div P
                 n2 == (v1 % P) * Q + l2 \div P
                 n3 == (l2 % P) * Q + l3 \div P
                 n4 == (l3 % P) * Q + l4 \div P
                 n5 == (l4 % P) * Q + l5 \div P
                 R  == l5 % P
                 roundUp == \/ 2 * R > P
                            \/ 2 * R = P /\ n5 % 2 = 1
                 r  == RoundToMant(<<n1, n2, n3, n4, n5>>, x.exp + sh, roundUp)
             IN  [neg |-> neg, mant |-> r.mant, exp |-> r.exp]

\* floor(m / 2^n) for a significand m, n >= 0
ShiftRight(m, n) ==
    LET q    == n \div LimbBits
        r    == n % LimbBits
        kept == SubSeq(m, 1, IF q >= MantLimbs THEN 0 ELSE MantLimbs - q)
        val[i \in 0..Len(kept)] ==
            IF i = 0 THEN 0 ELSE val[i - 1] * LimbBase + kept[i]
    IN  val[Len(kept)] \div Pow2(r)

\* some of the n lowest bits of the significand m is set
LowBitsSet(m, n) ==
    \E j \in 0..(MantLimbs - 1) :
        LET limb == m[MantLimbs - j]
        IN  IF LimbBits * (j + 1) <= n THEN limb # 0
            ELSE IF LimbBits * j < n THEN limb % Pow2(n - LimbBits * j) # 0
            ELSE FALSE

\* Math.round: floor(x + 0.5), so a half rounds towards +Infinity
MathRound(x) ==
    IF x.mant = <<>> THEN 0
    ELSE LET frac == -x.exp
             ip   == ShiftRight(x.mant, frac)
             half == frac >= 1 /\ ShiftRight(x.mant, frac - 1) % 2 = 1
             more == frac >= 2 /\ LowBitsSet(x.mant, frac - 1)
         IN  IF ~x.neg THEN ip + (IF half THEN 1 ELSE 0)
             ELSE -(ip + (IF half /\ more THEN 1 ELSE 0))

----------------------------------------------------------------------------
(* The data of a service response.  A JSON value that may lack a property  *)
(* carries a has... flag next to it; a raw entry without a title has the   *)
(* title NoTitle, one without a text has the text NoText.  The text of an  *)
(* entry is the index of the raw entry that supplied it.                   *)

orderedIcons == <<"skills", "leadership", "tenure", "expertise">>

Icons == {orderedIcons[i] : i \in 1..Len(orderedIcons)}

insightTitles ==
    [skills     |-> "Skill Requirements",
     leadership |-> "Leadership Experience",
     tenure     |-> "Employee Tenure",
     expertise  |-> "Required Expertise"]

NoTitle == ""
NoText  == 0

InvalidStructureMsg == "Invalid data structure received from API."
MissingInsightsMsg  == "API did not return all required key insights."
GenericFailureMsg   ==
    "Failed to generate insights. The AI model may be temporarily unavailable. Please try again later."
ServiceErrorMsg     == "got status: 503 UNAVAILABLE"
JsonSyntaxErrorMsg  == "Unexpected end of JSON input"

\* the mutant of insightsMap: the first entry with an icon is the one kept
insightsMap_firstWins(keyInsights) ==
    [ic \in {keyInsights[i].icon : i \in DOMAIN keyInsights} |->
        LET first == CHOOSE i \in DOMAIN keyInsights :
                         /\ keyInsights[i].icon = ic
                         /\ \A j \in DOMAIN keyInsights :
                                keyInsights[j].icon = ic => i <= j
        IN  keyInsights[first]]

\* new Map(data.keyInsights.map(k => [k.icon, k])): a later entry with the
\* same icon replaces the earlier one
insightsMap(keyInsights) ==
    [ic \in {keyInsights[i].icon : i \in DOMAIN keyInsights} |->
        LET last == CHOOSE i \in DOMAIN keyInsights :
                        /\ keyInsights[i].icon = ic
                        /\ \A j \in DOMAIN keyInsights :
                               keyInsights[j].icon = ic => j <= i
        IN  keyInsights[last]]

\* the mutant of orderedInsights: the found entries in the order of the map's keys
orderedInsights_rawOrder(keyInsights) ==
    LET m     == insightsMap(keyInsights)
        found == SelectSeq(keyInsights,
                           LAMBDA k : k.icon \in Icons /\ m[k.icon] = k)
    IN  [i \in 1..Len(found) |->
            [found[i] EXCEPT !.title = insightTitles[found[i].icon]]]

\* the mutant of orderedInsights: the fixed title only fills in a missing one
orderedInsights_keepTitle(keyInsights) ==
    LET m     == insightsMap(keyInsights)
        found == SelectSeq(orderedIcons, LAMBDA ic : ic \in DOMAIN m)
    IN  [i \in 1..Len(found) |->
            [m[found[i]] EXCEPT !.title = IF @ # NoTitle THEN @
                                          ELSE insightTitles[found[i]]]]

\* orderedIcons.map(icon => insightsMap.get(icon) with its title).filter(Boolean)
orderedInsights(keyInsights) ==
    LET m     == insightsMap(keyInsights)
        found == SelectSeq(orderedIcons, LAMBDA ic : ic \in DOMAIN m)
    IN  [i \in 1..Len(found) |->
            [m[found[i]] EXCEPT !.title = insightTitles[found[i]]]]

\* the mutant of normalizeDistribution: soft is computed from the raw technical
normalizeDistribution_staleSoft(sd) ==
    LET total == sd.technical + sd.soft
    IN  IF total > 0 /\ total # 100
        THEN [technical |-> MathRound(FMul(FDiv(sd.technical, total), 100)),
              soft      |-> 100 - sd.technical]
        ELSE IF total = 0
        THEN [technical |-> 50, soft |-> 50]
        ELSE sd

\* the rescaling of data.skillDistribution
normalizeDistribution(sd) ==
    LET total == sd.technical + sd.soft
    IN  IF total > 0 /\ total # 100
        THEN LET technical == MathRound(FMul(FDiv(sd.technical, total), 100))
             IN  [technical |-> technical, soft |-> 100 - technical]
        ELSE IF total = 0
        THEN [technical |-> 50, soft |-> 50]
        ELSE sd

\* the mutant of normalizeData: the structure check does not look at the
\* length of keyInsights
normalizeData_noLengthCheck(data) ==
    IF \/ ~data.hasSkillDistribution
       \/ ~data.hasKeyInsights
    THEN [threw |-> InvalidStructureMsg, data |-> data]
    ELSE LET ordered == orderedInsights(data.keyInsights)
         IN  IF Len(ordered) < 4
             THEN [threw |-> MissingInsightsMsg, data |-> data]
             ELSE [threw |-> "",
                   data  |-> [data EXCEPT
                                !.keyInsights = ordered,
                                !.skillDistribution =
                                    normalizeDistribution(data.skillDistribution)]]

\* the body of the try block after JSON.parse: threw is "" or the message of
\* the Error thrown, data the object returned otherwise
normalizeData(data) ==
    IF \/ ~data.hasSkillDistribution
       \/ ~data.hasKeyInsights
       \/ Len(data.keyInsights) < 4
    THEN [threw |-> InvalidStructureMsg, data |-> data]
    ELSE LET ordered == orderedInsights(data.keyInsights)
         IN  IF Len(ordered) < 4
             THEN [threw |-> MissingInsightsMsg, data |-> data]
             ELSE [threw |-> "",
                   data  |-> [data EXCEPT
                                !.keyInsights = ordered,
                                !.skillDistribution =
                                    normalizeDistribution(data.skillDistribution)]]

\* what the try block throws on a service response, "" when it returns
thrownBy(r) ==
    CASE r.kind = "reject"    -> ServiceErrorMsg
      [] r.kind = "malformed" -> JsonSyntaxErrorMsg
      [] OTHER                -> normalizeData(r.body).threw

\* the mutant of generateInsights: the catch block rethrows the error it caught
generateInsights_rethrow(r) ==
    IF thrownBy(r) = ""
    THEN [ok |-> TRUE, data |-> <<normalizeData(r.body).data>>,
          message |-> "", logged |-> ""]
    ELSE [ok |-> FALSE, data |-> <<>>,
          message |-> thrownBy(r), logged |-> thrownBy(r)]

\* the mutant of generateInsights: the catch block appends the message of the
\* error it caught
generateInsights_causeInMessage(r) ==
    IF thrownBy(r) = ""
    THEN [ok |-> TRUE, data |-> <<normalizeData(r.body).data>>,
          message |-> "", logged |-> ""]
    ELSE [ok |-> FALSE, data |-> <<>>,
          message |-> GenericFailureMsg \o " " \o thrownBy(r),
          logged |-> thrownBy(r)]

\* generateInsights on the response r of ai.models.generateContent: the
\* outcome is the value the promise resolves to, or the message of the Error
\* it rejects with and the error console.error logged
generateInsights(r) ==
    IF thrownBy(r) = ""
    THEN [ok |-> TRUE, data |-> <<normalizeData(r.body).data>>,
          message |-> "", logged |-> ""]
    ELSE [ok |-> FALSE, data |-> <<>>,
          message |-> GenericFailureMsg, logged |-> thrownBy(r)]

----------------------------------------------------------------------------
(* The responses the generative-model service can give *)

RawIcons  == Icons \cup {"other"}
RawTitles == {NoTitle, "Top skills"}

DistSamples == {<<70, 20>>, <<0, 0>>, <<60, 40>>, <<-30, -20>>, <<23, 17>>}

KeyInsightArrays(title) ==
    UNION {{[i \in 1..n |-> [icon |-> f[i], text |-> i, title |-> title]] :
                f \in [1..n -> RawIcons]} : n \in 0..MaxEntries}

NoBody ==
    [hasSkillDistribution |-> FALSE,
     skillDistribution    |-> [technical |-> 0, soft |-> 0],
     hasKeyInsights       |-> FALSE,
     keyInsights          |-> <<>>]

RawBodies(titles) ==
    {[hasSkillDistribution |-> hsd,
      skillDistribution    |-> IF hsd THEN [technical |-> d[1], soft |-> d[2]]
                                      ELSE NoBody.skillDistribution,
      hasKeyInsights       |-> TRUE,
      keyInsights          |-> k] :
        hsd \in BOOLEAN, d \in DistSamples,
        k \in UNION {KeyInsightArrays(t) : t \in titles}}
    \cup
    {[NoBody EXCEPT !.hasSkillDistribution = TRUE,
                    !.skillDistribution = [technical |-> d[1], soft |-> d[2]]] :
        d \in DistSamples}
    \cup {NoBody}

JsonResponse(body) == [kind |-> "json", body |-> body]
RejectResponse     == [kind |-> "reject", body |-> NoBody]
MalformedResponse  == [kind |-> "malformed", body |-> NoBody]

ServiceResponses(titles) ==
    {JsonResponse(b) : b \in RawBodies(titles)}
        \cup {RejectResponse, MalformedResponse}

----------------------------------------------------------------------------
(* The HTTP backend variant: getJobInsights *)

FetchErrorMsg == "Failed to fetch"

\* the mutant of getJobInsights: a non-2xx response always reports the status text
getJobInsights_statusOnly(r) ==
    IF r.kind = "reject"
    THEN [ok |-> FALSE, data |-> <<>>, message |-> FetchErrorMsg,
          logged |-> FetchErrorMsg]
    ELSE IF ~r.jsonOk
    THEN [ok |-> FALSE, data |-> <<>>, message |-> JsonSyntaxErrorMsg,
          logged |-> JsonSyntaxErrorMsg]
    ELSE IF ~r.ok
    THEN [ok |-> FALSE, data |-> <<>>,
          message |-> "API error: " \o r.statusText,
          logged  |-> "API error: " \o r.statusText]
    ELSE [ok |-> TRUE, data |-> <<r.body>>, message |-> "", logged |-> ""]

\* getJobInsights on the settlement r of fetch: a rejected fetch, or a response
\* with its ok flag, whether its body parses as JSON (jsonOk), the detail
\* field of that body ("" when absent or empty) and its status text
getJobInsights(r) ==
    IF r.kind = "reject"
    THEN [ok |-> FALSE, data |-> <<>>, message |-> FetchErrorMsg,
          logged |-> FetchErrorMsg]
    ELSE IF ~r.jsonOk
    THEN [ok |-> FALSE, data |-> <<>>, message |-> JsonSyntaxErrorMsg,
          logged |-> JsonSyntaxErrorMsg]
    ELSE IF ~r.ok
    THEN LET msg == IF r.detail # "" THEN r.detail
                    ELSE "API error: " \o r.statusText
         IN  [ok |-> FALSE, data |-> <<>>, message |-> msg, logged |-> msg]
    ELSE [ok |-> TRUE, data |-> <<r.body>>, message |-> "", logged |-> ""]

HttpBodies ==
    {[has_skill_distribution |-> hsd,
      technical_percentage   |-> IF hsd THEN 60 ELSE 0,
      soft_percentage        |-> IF hsd THEN 40 ELSE 0,
      has_categories         |-> hc] : hsd \in BOOLEAN, hc \in BOOLEAN}

EmptyHttpBody == CHOOSE b \in HttpBodies :
                    ~b.has_skill_distribution /\ ~b.has_categories

Details     == {"", "rate limited", "Job title not supported"}
StatusTexts == {"", "Too Many Requests"}

HttpResponses ==
    {[kind |-> "reject", ok |-> FALSE, jsonOk |-> FALSE, detail |-> "",
      statusText |-> "", body |-> EmptyHttpBody]}
    \cup
    {[kind |-> "response", ok |-> FALSE, jsonOk |-> j, detail |-> d,
      statusText |-> st, body |-> EmptyHttpBody] :
        j \in BOOLEAN, d \in Details, st \in StatusTexts}
    \cup
    {[kind |-> "response", ok |-> TRUE, jsonOk |-> FALSE, detail |-> "",
      statusText |-> "OK", body |-> EmptyHttpBody]}
    \cup
    {[kind |-> "response", ok |-> TRUE, jsonOk |-> TRUE, detail |-> "",
      statusText |-> "OK", body |-> b] : b \in HttpBodies}

----------------------------------------------------------------------------
(* The App component *)

JOB_TITLES ==
    <<"Business Analyst", "Data Analyst", "Software Engineer", "Product Manager",
      "Marketing Specialist", "Financial Analyst", "Human Resources Generalist",
      "Operations Manager", "UI/UX Designer", "Cybersecurity Analyst",
      "Management Consultant", "Investment Banking Analyst">>

JOB_LEVELS ==
    <<"Fresher", "Junior", "Mid-Level", "Senior", "Lead", "Principal",
      "Director", "VP", "Executive">>

Backends == {"gemini", "http"}

Null == <<>>

\* the responses the generative-model service gives in Spec
MkBody(d, icons) ==
    [hasSkillDistribution |-> TRUE,
     skillDistribution    |-> [technical |-> d[1], soft |-> d[2]],
     hasKeyInsights       |-> TRUE,
     keyInsights          |-> [i \in 1..Len(icons) |->
                                  [icon |-> icons[i], text |-> i, title |-> NoTitle]]]

GeminiSamples ==
    {JsonResponse(MkBody(<<60, 40>>, orderedIcons)),
     JsonResponse(MkBody(<<70, 20>>,
        <<"expertise", "tenure", "skills", "leadership", "skills">>)),
     JsonResponse(MkBody(<<60, 40>>, <<"skills", "leadership", "expertise", "skills">>)),
     JsonResponse(MkBody(<<60, 40>>, <<"skills", "leadership", "expertise">>)),
     JsonResponse([MkBody(<<60, 40>>, orderedIcons) EXCEPT !.keyInsights[3].text = NoText]),
     JsonResponse([MkBody(<<60, 40>>, orderedIcons) EXCEPT !.hasSkillDistribution = FALSE]),
     JsonResponse(NoBody),
     RejectResponse,
     MalformedResponse}

Responses == IF backend = "gemini" THEN GeminiSamples ELSE HttpResponses

\* the insight client handleSubmit awaits
callService(r) ==
    IF backend = "gemini" THEN generateInsights(r) ELSE getJobInsights(r)

\* the right operand of err.message || ... in handleSubmit
fallbackMessage ==
    IF backend = "gemini" THEN "An unknown error occurred."
    ELSE "Failed to fetch job insights. Please try again."

\* the mutant of submitDisabled: the button is never disabled
submitDisabled_never == FALSE

\* disabled={isLoading} on the submit button, the only way to submit the form
submitDisabled == isLoading

\* the mutant of selectDisabled: the select elements are never disabled
selectDisabled_never == FALSE

\* disabled={isLoading} on the two select elements
selectDisabled == isLoading

\* the mutant of handleSubmitBegin: setInsights(null) is left out
handleSubmitBegin_keepInsights ==
    /\ isLoading' = TRUE
    /\ error' = Null
    /\ insights' = insights

\* the mutant of handleSubmitBegin: setError(null) is left out
handleSubmitBegin_keepError ==
    /\ isLoading' = TRUE
    /\ error' = error
    /\ insights' = Null

\* handleSubmit up to its await: the three state resets
handleSubmitBegin ==
    /\ isLoading' = TRUE
    /\ error' = Null
    /\ insights' = Null

\* the mutant of handleSubmitFinally: the finally block is left out
handleSubmitFinally_none == isLoading

\* the finally block of handleSubmit: the value setIsLoading is called with
handleSubmitFinally == FALSE

\* the mutant of handleSubmitRejected: the request is issued again
handleSubmitRejected_retry(req, outcome) ==
    /\ calls' = calls + 1
    /\ inflight' = inflight
    /\ UNCHANGED <<error, insights, isLoading>>

\* handleSubmit after its await rejected: the catch and finally blocks
handleSubmitRejected(req, outcome) ==
    /\ error' = <<IF outcome.message # "" THEN outcome.message ELSE fallbackMessage>>
    /\ isLoading' = handleSubmitFinally
    /\ inflight' = inflight \ {req}
    /\ UNCHANGED <<insights, calls>>

\* the mutant of handleSubmitResolved: a response is applied only when it
\* answers the latest submission
handleSubmitResolved_latestOnly(req, outcome) ==
    /\ insights' = IF req.id = submits THEN <<outcome.data[1]>> ELSE insights
    /\ isLoading' = IF req.id = submits THEN FALSE ELSE isLoading
    /\ inflight' = inflight \ {req}
    /\ UNCHANGED <<error, calls>>

\* handleSubmit after its await resolved: setInsights(data) and the finally block
handleSubmitResolved(req, outcome) ==
    /\ insights' = <<outcome.data[1]>>
    /\ isLoading' = handleSubmitFinally
    /\ inflight' = inflight \ {req}
    /\ UNCHANGED <<error, calls>>

\* the mutant of effectCleanup: the effect returns no cleanup function
effectCleanup_none(c) == c

\* the cleanup function the effect on [insights] returns; c is
\* [ref: chartRef.current, live: the instances alive, created: the count]
effectCleanup(c) ==
    IF c.ref # Null
    THEN [c EXCEPT !.live = c.live \ {c.ref[1]}, !.ref = Null]
    ELSE c

\* the body of the effect on [insights], run with the committed insights ins;
\* the canvas is rendered, and canvasRef.current set, exactly when ins is set
effectBody(c, ins) ==
    IF ins # Null
    THEN LET live == IF c.ref # Null THEN c.live \ {c.ref[1]} ELSE c.live
             chart == c.created + 1
         IN  [ref |-> <<chart>>, live |-> live \cup {chart}, created |-> chart]
    ELSE c

\* useEffect(..., [insights]) after a commit: when the insights object
\* changed, the previous cleanup runs and then the effect body
useEffect(changed) ==
    LET c == [ref |-> chartRef, live |-> charts, created |-> chartsCreated]
        d == IF changed THEN effectBody(effectCleanup(c), insights') ELSE c
    IN  /\ chartRef' = d.ref
        /\ charts' = d.live
        /\ chartsCreated' = d.created

UiInit ==
    /\ jobTitle = JOB_TITLES[1]
    /\ jobLevel = JOB_LEVELS[1]
    /\ isLoading = FALSE
    /\ error = Null
    /\ insights = Null
    /\ inflight = {}
    /\ calls = 0
    /\ submits = 0
    /\ lastSettled = <<>>
    /\ mounted = TRUE
    /\ chartRef = Null
    /\ charts = {}
    /\ chartsCreated = 0

NormIdle  == resp = RejectResponse /\ out = <<>> /\ renorm = <<>>
DistIdle  == dist = <<0, 0>> /\ distOut = <<>>
SplitIdle == text = <<>> /\ points = <<>>

Init ==
    /\ backend \in Backends
    /\ UiInit
    /\ NormIdle
    /\ DistIdle
    /\ SplitIdle

\* onChange of the jobTitle select
SelectJobTitle ==
    /\ mounted
    /\ ~selectDisabled
    /\ \E i \in 1..MaxChoice : jobTitle' = JOB_TITLES[i]
    /\ UNCHANGED <<backend, jobLevel, isLoading, error, insights, inflight,
                   calls, submits, lastSettled, chartVars, normVars, distVars,
                   splitVars>>

\* onChange of the jobLevel select
SelectJobLevel ==
    /\ mounted
    /\ ~selectDisabled
    /\ \E i \in 1..MaxChoice : jobLevel' = JOB_LEVELS[i]
    /\ UNCHANGED <<backend, jobTitle, isLoading, error, insights, inflight,
                   calls, submits, lastSettled, chartVars, normVars, distVars,
                   splitVars>>

\* handleSubmit runs up to its await, having issued the one request of
\* generateInsights / getJobInsights with the jobTitle and jobLevel of the
\* render it was created in; the commit of the resets runs the effect
handleSubmit ==
    /\ submits < MaxSubmits
    /\ handleSubmitBegin
    /\ submits' = submits + 1
    /\ calls' = calls + 1
    /\ inflight' = inflight \cup
          {[id |-> submits + 1, jobTitle |-> jobTitle, jobLevel |-> jobLevel]}
    /\ lastSettled' = <<>>
    /\ useEffect(insights' # insights)
    /\ UNCHANGED <<backend, jobTitle, jobLevel, mounted, normVars, distVars,
                   splitVars>>

\* the form is submitted through its submit button
Submit ==
    /\ mounted
    /\ ~submitDisabled
    /\ handleSubmit

\* the service answers a request in flight and handleSubmit runs to its end;
\* a resolved request commits a new insights object, which runs the effect
Settle ==
    \E req \in inflight : \E r \in Responses :
        LET outcome == callService(r)
        IN  /\ IF outcome.ok THEN handleSubmitResolved(req, outcome)
                             ELSE handleSubmitRejected(req, outcome)
            /\ lastSettled' = <<[req |-> req, response |-> r, outcome |-> outcome]>>
            /\ useEffect(outcome.ok)
            /\ UNCHANGED <<backend, jobTitle, jobLevel, submits, mounted,
                           normVars, distVars, splitVars>>

Next == SelectJobTitle \/ SelectJobLevel \/ Submit \/ Settle

Spec == Init /\ [][Next]_vars

\* Spec in which the service call of every suspended handleSubmit settles
FairSpec == Spec /\ WF_vars(Settle)

\* the component is unmounted: the cleanup of the effect runs, and the
\* continuations of the suspended handleSubmit calls change no state any more
Unmount ==
    /\ mounted
    /\ mounted' = FALSE
    /\ LET c == effectCleanup([ref |-> chartRef, live |-> charts,
                               created |-> chartsCreated])
       IN  /\ chartRef' = c.ref
           /\ charts' = c.live
           /\ chartsCreated' = c.created
    /\ inflight' = {}
    /\ UNCHANGED <<backend, jobTitle, jobLevel, isLoading, error, insights,
                   calls, submits, lastSettled, normVars, distVars, splitVars>>

ChartNext == SelectJobTitle \/ SelectJobLevel \/ Submit \/ Settle \/ Unmount

ChartSpec == Init /\ [][ChartNext]_vars

\* the submit event reaches handleSubmit although a request is in flight:
\* handleSubmit itself does not look at isLoading
RaceSubmit ==
    /\ mounted
    /\ handleSubmit

\* the selection stays as it is in RaceSpec: no response depends on the
\* arguments of its request
RaceNext == RaceSubmit \/ Settle

RaceSpec == Init /\ [][RaceNext]_vars

----------------------------------------------------------------------------
(* generateInsights on one service response *)

NormInit ==
    /\ backend = "gemini"
    /\ UiInit
    /\ DistIdle
    /\ SplitIdle
    /\ resp \in ServiceResponses(RawTitles)
    /\ out = <<>>
    /\ renorm = <<>>

\* generateInsights settles on resp
Generate ==
    /\ out = <<>>
    /\ out' = <<generateInsights(resp)>>
    /\ UNCHANGED <<uiVars, distVars, splitVars, resp, renorm>>

\* the data generateInsights returned goes through its normalisation again
Renormalize ==
    /\ out # <<>>
    /\ out[1].ok
    /\ renorm = <<>>
    /\ renorm' = <<normalizeData(out[1].data[1])>>
    /\ UNCHANGED <<uiVars, distVars, splitVars, resp, out>>

NormNext == Generate \/ Renormalize

NormSpec == NormInit /\ [][NormNext]_vars

----------------------------------------------------------------------------
(* the distribution rescaling on one raw pair *)

DistInit ==
    /\ backend = "gemini"
    /\ UiInit
    /\ NormIdle
    /\ SplitIdle
    /\ dist \in ((-MaxNeg)..MaxRaw) \X ((-MaxNeg)..MaxRaw)
    /\ distOut = <<>>

Rescale ==
    /\ distOut = <<>>
    /\ distOut' = <<normalizeDistribution([technical |-> dist[1], soft |-> dist[2]])>>
    /\ UNCHANGED <<uiVars, normVars, splitVars, dist>>

DistNext == Rescale

DistSpec == DistInit /\ [][DistNext]_vars

----------------------------------------------------------------------------
(* The bullet split of one category text *)

\* the characters of a text: the separator, two kinds of white space, two
\* other characters
Chars      == {"*", " ", "\n", "a", "b"}
WhiteSpace == {" ", "\n"}

ExampleText ==
    <<"*", " ", "P", "y", "t", "h", "o", "n", "\n",
      "*", " ", "S", "Q", "L", " ", "*", " ", "E", "x", "c", "e", "l">>

Texts == UNION {[1..n -> Chars] : n \in 0..MaxTextLen} \cup {ExampleText}

\* String.prototype.split with a one-character separator
RECURSIVE split(_, _)
split(s, sep) ==
    IF \A i \in DOMAIN s : s[i] # sep
    THEN <<s>>
    ELSE LET i == CHOOSE i \in DOMAIN s :
                      s[i] = sep /\ \A j \in 1..(i - 1) : s[j] # sep
         IN  <<SubSeq(s, 1, i - 1)>> \o split(SubSeq(s, i + 1, Len(s)), sep)

\* String.prototype.trim
trim(s) ==
    LET keep == {i \in DOMAIN s : s[i] \notin WhiteSpace}
    IN  IF keep = {} THEN <<>>
        ELSE SubSeq(s, CHOOSE i \in keep : \A j \in keep : i <= j,
                       CHOOSE i \in keep : \A j \in keep : j <= i)

\* the mutant of insightPoints: the segments are not trimmed
insightPoints_noTrim(t) ==
    SelectSeq(split(t, "*"), LAMBDA x : x # <<>>)

\* insight.text.split('*').map(s => s.trim()).filter(Boolean)
insightPoints(t) ==
    LET segments == split(t, "*")
        trimmed  == [i \in DOMAIN segments |-> trim(segments[i])]
    IN  SelectSeq(trimmed, LAMBDA x : x # <<>>)

SplitInit ==
    /\ backend = "gemini"
    /\ UiInit
    /\ NormIdle
    /\ DistIdle
    /\ text \in Texts
    /\ points = <<>>

\* a category card is rendered for text
RenderPoints ==
    /\ points = <<>>
    /\ points' = <<insightPoints(text)>>
    /\ UNCHANGED <<uiVars, normVars, distVars, text>>

SplitNext == RenderPoints

SplitSpec == SplitInit /\ [][SplitNext]_vars

----------------------------------------------------------------------------
(* Claims about generateInsights (NormSpec, DistSpec) *)

Settled  == out # <<>>
Returned == out # <<>> /\ out[1].ok

IconsOf(keyInsights) == [i \in DOMAIN keyInsights |-> keyInsights[i].icon]

\* C1: whenever generateInsights succeeds, the returned keyInsights has
\* exactly four entries whose icons are, in this order, skills, leadership,
\* tenure, expertise, whatever the order and the extra entries of the raw array.
C1_FourOrderedInsights ==
    Returned => IconsOf(out[1].data[1].keyInsights) = orderedIcons

\* C1 witness: a success on a raw array of more than four entries that does
\* not start with skills
C1_Witness ==
    /\ Returned
    /\ Len(resp.body.keyInsights) > 4
    /\ resp.body.keyInsights[1].icon # "skills"
    /\ IconsOf(resp.body.keyInsights) # orderedIcons

\* C2: whenever generateInsights succeeds, the returned skillDistribution has
\* technical >= 0, soft >= 0 and technical + soft = 100, also for raw values
\* that are negative or whose sum is negative.
C2_DistributionSumsTo100 ==
    Returned =>
        LET sd == out[1].data[1].skillDistribution
        IN  sd.technical >= 0 /\ sd.soft >= 0 /\ sd.technical + sd.soft = 100

\* the reference function of C3, in exact integer arithmetic
RefDistribution(t, s) ==
    IF t + s = 100 THEN [technical |-> t, soft |-> s]
    ELSE IF t + s > 0
    THEN LET technical == (200 * t + (t + s)) \div (2 * (t + s))
         IN  [technical |-> technical, soft |-> 100 - technical]
    ELSE [technical |-> 50, soft |-> 50]

\* C3: for all integer raw pairs (t, s) with t, s >= 0 the normalised
\* distribution equals the reference function: unchanged when t + s = 100,
\* technical = round(100 t / (t + s)) with halves rounded up and
\* soft = 100 - technical when t + s > 0, and (50, 50) when t + s = 0.
C3_MatchesReference ==
    (distOut # <<>> /\ dist[1] >= 0 /\ dist[2] >= 0)
        => distOut[1] = RefDistribution(dist[1], dist[2])

\* the raw response is a JSON object without an entry for some required key
LacksKey(r) ==
    /\ r.kind = "json"
    /\ \E ic \in Icons :
           \A i \in DOMAIN r.body.keyInsights : r.body.keyInsights[i].icon # ic

\* C4 as stated: a raw response lacking an entry for one of the four keys
\* makes generateInsights fail without a result and with an error that is
\* distinguishable from the error for an invalid response structure and from
\* the error of a transport failure.
C4_MissingKeyErrorIsDistinct ==
    (/\ Settled
     /\ LacksKey(resp)
     /\ resp.body.hasSkillDistribution
     /\ Len(resp.body.keyInsights) >= 4) =>
        /\ ~out[1].ok
        /\ out[1].data = <<>>
        /\ out[1].message # generateInsights(JsonResponse(NoBody)).message
        /\ out[1].message # generateInsights(RejectResponse).message

\* C4 amended: a raw response lacking an entry for one of the four keys makes
\* generateInsights fail without a result; the error the caller gets carries
\* the one fixed message of every failure of generateInsights, and the cause
\* (missing category for an otherwise valid structure, invalid structure
\* otherwise) is only logged.
C4_MissingKeyFails ==
    (Settled /\ LacksKey(resp)) =>
        /\ ~out[1].ok
        /\ out[1].data = <<>>
        /\ out[1].message = GenericFailureMsg
        /\ out[1].logged =
              IF /\ resp.body.hasSkillDistribution
                 /\ resp.body.hasKeyInsights
                 /\ Len(resp.body.keyInsights) >= 4
              THEN MissingInsightsMsg ELSE InvalidStructureMsg

\* C4 witness: a settled call on a structurally valid response of at least
\* four entries none of which is for tenure
C4_Witness ==
    /\ Settled
    /\ LacksKey(resp)
    /\ resp.body.hasSkillDistribution
    /\ Len(resp.body.keyInsights) >= 4
    /\ \A i \in DOMAIN resp.body.keyInsights : resp.body.keyInsights[i].icon # "tenure"
    /\ out[1].logged = MissingInsightsMsg

\* C6: normalisation is idempotent: the normalisation steps applied to a
\* result generateInsights returned do not throw and give the same result.
C6_Idempotent ==
    renorm # <<>> =>
        /\ renorm[1].threw = ""
        /\ renorm[1].data = out[1].data[1]

\* C6 witness: a result that differs from its raw response in the order of
\* the entries and in the distribution has been normalised a second time
C6_Witness ==
    /\ renorm # <<>>
    /\ IconsOf(resp.body.keyInsights) # orderedIcons
    /\ resp.body.skillDistribution # out[1].data[1].skillDistribution

----------------------------------------------------------------------------
(* Claims about the App component and its insight client (Spec) *)

HasSettled == lastSettled # <<>>

\* C5: with the HTTP backend, a non-2xx response whose JSON body has a
\* non-empty detail makes getJobInsights fail with exactly that detail as its
\* message, and once handleSubmit has settled the error state is that string
\* and the result is null.
C5_DetailIsTheError ==
    (/\ backend = "http"
     /\ HasSettled
     /\ lastSettled[1].response.kind = "response"
     /\ ~lastSettled[1].response.ok
     /\ lastSettled[1].response.jsonOk
     /\ lastSettled[1].response.detail # "")
        => /\ ~lastSettled[1].outcome.ok
           /\ lastSettled[1].outcome.message = lastSettled[1].response.detail
           /\ error = <<lastSettled[1].response.detail>>
           /\ insights = Null

\* C5 witness: handleSubmit has settled on a non-2xx response with the
\* detail "rate limited"
C5_Witness ==
    /\ backend = "http"
    /\ HasSettled
    /\ ~lastSettled[1].response.ok
    /\ lastSettled[1].response.jsonOk
    /\ lastSettled[1].response.detail = "rate limited"
    /\ error = <<"rate limited">>

\* C7: in every reachable state an error message and a result are never both
\* set: error # null implies insights = null.
C7_ErrorExcludesResult == error # Null => insights = Null

\* C7 witness: a later submission has failed
C7_Witness ==
    /\ error # Null
    /\ submits >= 2
    /\ HasSettled
    /\ ~lastSettled[1].outcome.ok

\* C8: at most one request is in flight at any time, and the submit control
\* is disabled from the start of a submission until its request settles.
C8_AtMostOneInFlight ==
    /\ Cardinality(inflight) <= 1
    /\ inflight # {} => isLoading

\* C8 witness: a request is in flight after an earlier one has settled
C8_Witness ==
    /\ Cardinality(inflight) = 1
    /\ submits >= 2
    /\ isLoading

\* the body of a 2xx HTTP response has the fields of InsightData
HttpSchemaValid(b) == b.has_skill_distribution /\ b.has_categories

\* the JSON of the generative model satisfies responseSchema
GeminiSchemaValid(b) ==
    /\ b.hasSkillDistribution
    /\ b.hasKeyInsights
    /\ \A i \in DOMAIN b.keyInsights :
           b.keyInsights[i].icon \in Icons /\ b.keyInsights[i].text # NoText

\* transport failure, non-success status, malformed JSON, or a received
\* payload that fails schema validation
FailureKind(r) ==
    IF backend = "http"
    THEN \/ r.kind = "reject"
         \/ ~r.ok
         \/ ~r.jsonOk
         \/ ~HttpSchemaValid(r.body)
    ELSE \/ r.kind = "reject"
         \/ r.kind = "malformed"
         \/ ~GeminiSchemaValid(r.body)

\* C9: every failure kind of the insight client ends the request in the
\* failure state, with an error message set and no result set.
C9_EveryFailureKindFails ==
    (HasSettled /\ FailureKind(lastSettled[1].response))
        => error # Null /\ insights = Null

\* C10: each submission issues exactly one call to the external service: no
\* request is issued after a failed attempt until the next submission, and
\* the handleSubmit invocation whose request failed has set the error and
\* finished.
C10_OneCallPerSubmission ==
    /\ calls = submits
    /\ (HasSettled /\ ~lastSettled[1].outcome.ok)
          => /\ error # Null
             /\ lastSettled[1].req \notin inflight
             /\ inflight = {}

\* C10 witness: the second submission's request has failed and nothing is in
\* flight
C10_Witness ==
    /\ HasSettled
    /\ ~lastSettled[1].outcome.ok
    /\ lastSettled[1].req.id = 2
    /\ calls = 2
    /\ inflight = {}

----------------------------------------------------------------------------
(* Claims about the request lifecycle (Spec, FairSpec) *)

\* the state handleSubmit leaves once the last request has settled
SettledOk   == HasSettled /\ lastSettled[1].outcome.ok
SettledFail == HasSettled /\ ~lastSettled[1].outcome.ok

\* C11: the lifecycle is idle -> loading -> (success | failure) -> loading
\* ...: a submission always enters the loading state; provided the service
\* call settles, the state eventually becomes not loading with either a
\* result set or an error set; and in both outcomes the submit control is
\* enabled again.
C11_Lifecycle ==
    /\ [][submits' = submits + 1 => (isLoading' /\ submitDisabled')]_vars
    /\ [](SettledOk => (~isLoading /\ insights # Null /\ ~submitDisabled))
    /\ [](SettledFail => (~isLoading /\ error # Null /\ ~submitDisabled))
    /\ (isLoading ~> (~isLoading /\ (insights # Null \/ error # Null)))

\* C11 witness: the third submission has settled and the submit control is
\* enabled again
C11_Witness ==
    /\ HasSettled
    /\ lastSettled[1].req.id = 3
    /\ ~isLoading
    /\ ~submitDisabled
    /\ (insights # Null \/ error # Null)

\* C12: immediately after any submission starts, insights = null and
\* error = null whatever the previous state was; after a successful request
\* insights is exactly that request's result, with nothing carried over from
\* the previous result; after a failed request insights is null.
C12_SubmissionResets ==
    [][/\ submits' = submits + 1 => (insights' = Null /\ error' = Null)
       /\ (lastSettled' # lastSettled /\ lastSettled' # <<>>) =>
             insights' = IF lastSettled'[1].outcome.ok
                         THEN lastSettled'[1].outcome.data
                         ELSE Null]_vars

\* C12 witness: a submission that followed a failed one has succeeded, and
\* the result shown is its result
C12_Witness ==
    /\ SettledOk
    /\ lastSettled[1].req.id = 2
    /\ calls = 2
    /\ error = Null
    /\ insights = lastSettled[1].outcome.data

----------------------------------------------------------------------------
(* Claims about the chart (ChartSpec) *)

\* C13: at most one chart instance is alive at any time: whenever the result
\* changes, the previous chart is destroyed before a new one is created, so
\* only the newest instance can be alive and chartRef.current is that
\* instance; and when the result is null (new submission, failure) or the
\* component is torn down, no chart instance remains alive.
C13_AtMostOneChart ==
    /\ Cardinality(charts) <= 1
    /\ charts \subseteq {chartsCreated}
    /\ charts = (IF chartRef = Null THEN {} ELSE {chartRef[1]})
    /\ insights = Null => charts = {}
    /\ ~mounted => charts = {}

\* C13 witness: a second chart had replaced the first one when the component
\* was torn down with its result on display
C13_Witness ==
    /\ ~mounted
    /\ chartsCreated = 2
    /\ insights # Null
    /\ charts = {}

----------------------------------------------------------------------------
(* Further claims about generateInsights (NormSpec) and its caller (Spec) *)

\* the raw entries generateInsights was given
RawInsights == resp.body.keyInsights

\* C14: in every successful result of generateInsights each category's title
\* is the fixed lookup of its key (skills -> "Skill Requirements",
\* leadership -> "Leadership Experience", tenure -> "Employee Tenure",
\* expertise -> "Required Expertise"), even when the raw entry carries a title
\* of its own, and the category's text is the text of a raw entry for that key.
C14_FixedTitles ==
    Returned =>
        \A i \in DOMAIN out[1].data[1].keyInsights :
            LET k == out[1].data[1].keyInsights[i]
            IN  /\ k.title = CASE k.icon = "skills"     -> "Skill Requirements"
                                [] k.icon = "leadership" -> "Leadership Experience"
                                [] k.icon = "tenure"     -> "Employee Tenure"
                                [] k.icon = "expertise"  -> "Required Expertise"
                /\ \E j \in DOMAIN RawInsights :
                       /\ RawInsights[j].icon = k.icon
                       /\ RawInsights[j].text = k.text

\* C14 witness: a success on raw entries that carry the title "Top skills"
C14_Witness ==
    /\ Returned
    /\ \A j \in DOMAIN RawInsights : RawInsights[j].title = "Top skills"
    /\ out[1].data[1].keyInsights[1].title = "Skill Requirements"

\* C16: when the raw response has several entries with the same key and still
\* covers all four keys, generateInsights succeeds and the category for that
\* key carries the text of the last such entry.
C16_LastDuplicateWins ==
    (/\ Settled
     /\ resp.kind = "json"
     /\ resp.body.hasSkillDistribution
     /\ resp.body.hasKeyInsights
     /\ \A ic \in Icons : \E j \in DOMAIN RawInsights : RawInsights[j].icon = ic) =>
        /\ out[1].ok
        /\ \A i \in DOMAIN out[1].data[1].keyInsights :
               LET k == out[1].data[1].keyInsights[i]
               IN  \E j \in DOMAIN RawInsights :
                       /\ RawInsights[j].icon = k.icon
                       /\ RawInsights[j].text = k.text
                       /\ \A l \in DOMAIN RawInsights :
                              l > j => RawInsights[l].icon # k.icon

\* C16 witness: a success on a raw array whose first and last entries are
\* both for skills, carrying the text of the last one
C16_Witness ==
    /\ Returned
    /\ Len(RawInsights) = 5
    /\ RawInsights[1].icon = "skills"
    /\ RawInsights[5].icon = "skills"
    /\ RawInsights[1].text # RawInsights[5].text
    /\ out[1].data[1].keyInsights[1].text = RawInsights[5].text

\* C18: a raw response with no skillDistribution object or no keyInsights
\* collection makes generateInsights fail with no result; the same rejection,
\* that of an invalid structure, applies to any raw response whose keyInsights
\* has fewer than four entries, before any key lookup is made.
C18_InvalidStructureFails ==
    (/\ Settled
     /\ resp.kind = "json"
     /\ \/ ~resp.body.hasSkillDistribution
        \/ ~resp.body.hasKeyInsights
        \/ Len(RawInsights) < 4) =>
        /\ ~out[1].ok
        /\ out[1].data = <<>>
        /\ out[1].logged = "Invalid data structure received from API."

\* C18 witness: a settled call on a response with a skillDistribution and
\* three entries for three different keys
C18_Witness ==
    /\ Settled
    /\ resp.kind = "json"
    /\ resp.body.hasSkillDistribution
    /\ resp.body.hasKeyInsights
    /\ IconsOf(RawInsights) = <<"skills", "leadership", "tenure">>
    /\ ~out[1].ok

\* C19: every failure inside generateInsights (service rejection, JSON parse
\* error, invalid structure, missing category) reaches the caller with one
\* and the same fixed message, so the error state handleSubmit sets is
\* identical for all these causes and never carries the message of the
\* original cause.
C19_OneFixedMessage ==
    (backend = "gemini" /\ SettledFail) =>
        /\ lastSettled[1].outcome.message =
              "Failed to generate insights. The AI model may be temporarily unavailable. Please try again later."
        /\ error = <<lastSettled[1].outcome.message>>
        /\ lastSettled[1].outcome.logged \in
              {ServiceErrorMsg, JsonSyntaxErrorMsg, InvalidStructureMsg,
               MissingInsightsMsg}
        /\ error # <<lastSettled[1].outcome.logged>>

\* C19 witness: a request failed for a missing category and the error state
\* is the fixed message
C19_Witness ==
    /\ backend = "gemini"
    /\ SettledFail
    /\ lastSettled[1].outcome.logged = MissingInsightsMsg
    /\ error = <<GenericFailureMsg>>

----------------------------------------------------------------------------
(* Claims about the bullet split (SplitSpec) *)

\* the positions of the separators of t, and the position before its start
Stars(t)    == {i \in DOMAIN t : t[i] = "*"}
SegStart(t) == Stars(t) \cup {0}

\* the positions of the segment that starts after position a which hold a
\* character other than white space
Ink(t, a) ==
    {i \in DOMAIN t :
        /\ i > a
        /\ t[i] \notin {" ", "\n"}
        /\ \A j \in Stars(t) : j <= a \/ j > i}

\* the bullets the claim describes: for each segment between separators that
\* is not blank, in order, its characters from the first to the last that is
\* not white space
RefBullets(t) ==
    LET nonBlank == {a \in SegStart(t) : Ink(t, a) # {}}
    IN  [k \in 1..Cardinality(nonBlank) |->
            LET a   == CHOOSE a \in nonBlank :
                           Cardinality({x \in nonBlank : x <= a}) = k
                ink == Ink(t, a)
            IN  [i \in 1..(1 + (CHOOSE m \in ink : \A j \in ink : j <= m)
                              - (CHOOSE m \in ink : \A j \in ink : m <= j)) |->
                    t[i - 1 + (CHOOSE m \in ink : \A j \in ink : m <= j)]]]

\* C15: the bullet split of a category text is the ordered sequence of the
\* segments between * characters, each trimmed of surrounding white space,
\* with the empty segments removed; a text with no * that is not blank yields
\* exactly one bullet, the whole trimmed text; "* Python\n* SQL * Excel"
\* yields Python, SQL, Excel.
C15_BulletSplit ==
    points # <<>> =>
        /\ points[1] = RefBullets(text)
        /\ (Stars(text) = {} /\ Ink(text, 0) # {}) =>
              /\ Len(points[1]) = 1
              /\ \E lead, trail \in 0..Len(text) :
                     /\ \A i \in 1..lead : text[i] \in {" ", "\n"}
                     /\ \A i \in (Len(text) - trail + 1)..Len(text) :
                            text[i] \in {" ", "\n"}
                     /\ text[lead + 1] \notin {" ", "\n"}
                     /\ text[Len(text) - trail] \notin {" ", "\n"}
                     /\ points[1][1] = SubSeq(text, lead + 1, Len(text) - trail)
        /\ text = ExampleText =>
              points[1] = << <<"P", "y", "t", "h", "o", "n">>,
                             <<"S", "Q", "L">>,
                             <<"E", "x", "c", "e", "l">> >>

\* C15 witness: the example text has been split into its three bullets
C15_Witness ==
    /\ points # <<>>
    /\ text = ExampleText
    /\ Len(points[1]) = 3

----------------------------------------------------------------------------
(* Claims about overlapping submissions (RaceSpec) *)

----------------------------------------------------------------------------
(* Claims about the selection (Spec) *)

\* C20: while the loading flag is true both selection controls are disabled,
\* so jobTitle and jobLevel cannot change between the start of a submission
\* and its settlement; handleSubmit itself never changes jobTitle or
\* jobLevel; and the request carries the values selected at the moment of
\* submission, initially the first entry of each catalog.
C20_SelectionFrame ==
    /\ jobTitle = "Business Analyst" /\ jobLevel = "Fresher"
    /\ [](isLoading => selectDisabled)
    /\ [](\A req \in inflight :
             req.jobTitle = jobTitle /\ req.jobLevel = jobLevel)
    /\ [][(isLoading \/ submits' # submits \/ lastSettled' # lastSettled) =>
             (jobTitle' = jobTitle /\ jobLevel' = jobLevel)]_vars
    /\ [][submits' = submits + 1 =>
             inflight' \ inflight =
                 {[id |-> submits', jobTitle |-> jobTitle, jobLevel |-> jobLevel]}]_vars

\* C20 witness: the second submission is in flight with a title and a level
\* other than the defaults
C20_Witness ==
    /\ isLoading
    /\ jobTitle # JOB_TITLES[1]
    /\ jobLevel # JOB_LEVELS[1]
    /\ inflight = {[id |-> 2, jobTitle |-> jobTitle, jobLevel |-> jobLevel]}

====
